---- MODULE Spec2Model ----
(***************************************************************************)
(* Model of find_global_re_binds.py: the GlobalRebindFinder visitor (the   *)
(* scope tracker and the walker), re_binds_in_source, re_binds_in_directory *)
(* and main (the reporter).                                                 *)
(*                                                                         *)
(* Strings are TLA+ strings where only concatenation and equality matter   *)
(* (names, descriptors, printed lines) and sequences of one-character      *)
(* strings where the code looks inside them (relative paths).              *)
(* A Python dict is a record [keys, val]: keys is the insertion order, val *)
(* the mapping.  An optional field is <<>> for None and <<v>> otherwise.   *)
(***************************************************************************)
EXTENDS Integers, Sequences, FiniteSets, TLC

VARIABLES
    in_scope,                  \* the finder's in_scope dict
    re_binds,                  \* the finder's re_binds dict
    events,                    \* log of the add_name_to_scope calls on the finder
    body,                      \* top-level statements the finder has visited
    root,                      \* state of the directory given to main
    fs,                        \* the files under it, in listing order
    pc,                        \* position of the run
    python_modules_and_stubs,  \* the filtered candidates of re_binds_in_directory
    next_source,               \* index of the next candidate of the comprehension
    opened,                    \* log of the paths re_binds_in_source has opened
    directory_re_binds,        \* the dict re_binds_in_directory builds
    output,                    \* lines printed by main
    run,                       \* 1 in the first run of main, 2 in the second
    first_run                  \* what the first run ended with

trackerVars == <<in_scope, re_binds, events, body>>

scanVars == <<root, fs, pc, python_modules_and_stubs, next_source, opened,
              directory_re_binds, output, run, first_run>>

vars == <<in_scope, re_binds, events, body, root, fs, pc,
          python_modules_and_stubs, next_source, opened, directory_re_binds,
          output, run, first_run>>

(***************************************************************************)
(* Bounds.                                                                 *)
(***************************************************************************)
MaxCalls == 4
MaxStmts == 2
MaxFiles == 2

(***************************************************************************)
(* Python values.                                                          *)
(***************************************************************************)
None == <<>>

EmptyDict == [keys |-> <<>>, val |-> <<>>]

Has(d, k) == k \in DOMAIN d.val

Get(d, k) == d.val[k]

Put(d, k, v) ==
    [keys |-> IF Has(d, k) THEN d.keys ELSE Append(d.keys, k),
     val  |-> (k :> v) @@ d.val]

DictLen(d) == Len(d.keys)

KeySet(d) == DOMAIN d.val

(***************************************************************************)
(* GlobalRebindFinder: the scope tracker.                                  *)
(***************************************************************************)
NewFinder == [in_scope |-> EmptyDict, re_binds |-> EmptyDict, events |-> <<>>]

\* Faulty variants of add_name_to_scope: history not seeded; history from the first binding.
add_name_to_scope_no_seed(self, name, value) ==
    LET hist == IF Has(self.in_scope, name)
                THEN IF ~Has(self.re_binds, name)
                     THEN Put(self.re_binds, name, <<value>>)
                     ELSE Put(self.re_binds, name,
                              Append(Get(self.re_binds, name), value))
                ELSE self.re_binds
    IN  [self EXCEPT !.re_binds = hist,
                     !.in_scope = Put(self.in_scope, name, value)]

add_name_to_scope_eager(self, name, value) ==
    LET hist == IF Has(self.re_binds, name)
                THEN Put(self.re_binds, name,
                         Append(Get(self.re_binds, name), value))
                ELSE Put(self.re_binds, name, <<value>>)
    IN  [self EXCEPT !.re_binds = hist,
                     !.in_scope = Put(self.in_scope, name, value)]

\* Faulty variant of add_name_to_scope: in_scope keeps the first binding.
add_name_to_scope_stale_scope(self, name, value) ==
    LET seeded == IF ~Has(self.re_binds, name)
                  THEN Put(self.re_binds, name, <<Get(self.in_scope, name)>>)
                  ELSE self.re_binds
        hist == IF Has(self.in_scope, name)
                THEN Put(seeded, name, Append(Get(seeded, name), value))
                ELSE self.re_binds
    IN  [self EXCEPT !.re_binds = hist,
                     !.in_scope = IF Has(self.in_scope, name) THEN self.in_scope
                                  ELSE Put(self.in_scope, name, value)]

\* Faulty variant of add_name_to_scope: a first re-bind starts re_binds anew.
add_name_to_scope_reset_history(self, name, value) ==
    LET seeded == IF ~Has(self.re_binds, name)
                  THEN Put(EmptyDict, name, <<Get(self.in_scope, name)>>)
                  ELSE self.re_binds
        hist == IF Has(self.in_scope, name)
                THEN Put(seeded, name, Append(Get(seeded, name), value))
                ELSE self.re_binds
    IN  [self EXCEPT !.re_binds = hist,
                     !.in_scope = Put(self.in_scope, name, value)]

add_name_to_scope(self, name, value) ==
    LET seeded == IF ~Has(self.re_binds, name)
                  THEN Put(self.re_binds, name, <<Get(self.in_scope, name)>>)
                  ELSE self.re_binds
        hist == IF Has(self.in_scope, name)
                THEN Put(seeded, name, Append(Get(seeded, name), value))
                ELSE self.re_binds
    IN  [self EXCEPT !.re_binds = hist,
                     !.in_scope = Put(self.in_scope, name, value)]

\* A call of add_name_to_scope, logged in events as <<name, value>>.
record(self, name, value) ==
    [add_name_to_scope(self, name, value)
        EXCEPT !.events = Append(self.events, <<name, value>>)]

Self == [in_scope |-> in_scope, re_binds |-> re_binds, events |-> events]

SetSelf(s) ==
    /\ in_scope' = s.in_scope
    /\ re_binds' = s.re_binds
    /\ events' = s.events

(***************************************************************************)
(* The tracker alone: any sequence of add_name_to_scope calls on one       *)
(* finder.                                                                 *)
(***************************************************************************)
TrackerNames == {"x", "y"}
TrackerValues == {"Constant(value=1)", "class::x"}

NoRun == [pc |-> "none", output |-> <<>>, directory_re_binds |-> EmptyDict]

InitTracker ==
    /\ in_scope = NewFinder.in_scope
    /\ re_binds = NewFinder.re_binds
    /\ events = <<>>
    /\ body = <<>>
    /\ root = "ok"
    /\ fs = <<>>
    /\ pc = "visit"
    /\ python_modules_and_stubs = <<>>
    /\ next_source = 1
    /\ opened = <<>>
    /\ directory_re_binds = EmptyDict
    /\ output = <<>>
    /\ run = 1
    /\ first_run = NoRun

AddNameToScope ==
    /\ pc = "visit"
    /\ Len(events) < MaxCalls
    /\ \E name \in TrackerNames, value \in TrackerValues :
          SetSelf(record(Self, name, value))
    /\ UNCHANGED body
    /\ UNCHANGED scanVars

NextTracker == AddNameToScope

SpecTracker == InitTracker /\ [][NextTracker]_vars

(***************************************************************************)
(* What the log of calls says about one name.                              *)
(***************************************************************************)
RECURSIVE ValuesFor(_, _)
ValuesFor(log, name) ==
    IF log = <<>> THEN <<>>
    ELSE LET rest == ValuesFor(SubSeq(log, 1, Len(log) - 1), name)
             last == log[Len(log)]
         IN  IF last[1] = name THEN Append(rest, last[2]) ELSE rest

CallCount(name) == Len(ValuesFor(events, name))

AllNames == {events[i][1] : i \in DOMAIN events}

\* C1: a name is a key of re_binds iff add_name_to_scope was called at least
\* twice for it; a name recorded exactly once is in in_scope and has no
\* history entry.
C1_RebindIffTwice ==
    /\ \A name \in KeySet(re_binds) \cup KeySet(in_scope) \cup AllNames :
          /\ Has(re_binds, name) <=> CallCount(name) >= 2
          /\ CallCount(name) = 1 =>
                Has(in_scope, name) /\ ~Has(re_binds, name)
    /\ Len(re_binds.keys) = Cardinality(KeySet(re_binds))

C1_Witness ==
    /\ CallCount("x") = 1
    /\ CallCount("y") >= 2
    /\ Has(re_binds, "y")
    /\ ~Has(re_binds, "x")

\* C2: for every name bound k >= 2 times, re_binds[name] is exactly the
\* sequence of the k values recorded for it, in call order, the first
\* binding's value first, equal values kept.
C2_HistoryIsAllValuesInOrder ==
    \A name \in AllNames :
        CallCount(name) >= 2 =>
            /\ Has(re_binds, name)
            /\ Get(re_binds, name) = ValuesFor(events, name)

C2_Witness ==
    /\ Has(re_binds, "x")
    /\ Get(re_binds, "x") =
          <<"Constant(value=1)", "Constant(value=1)", "class::x">>
    /\ CallCount("y") = 1

\* C13: every key of re_binds is a key of in_scope, every history has at
\* least two elements, and the last element of re_binds[name] is
\* in_scope[name], the current value of the name.
C13_HistoryEndsAtCurrentValue ==
    \A name \in KeySet(re_binds) :
        /\ Has(in_scope, name)
        /\ Len(Get(re_binds, name)) >= 2
        /\ Get(re_binds, name)[Len(Get(re_binds, name))] = Get(in_scope, name)

C13_Witness ==
    /\ Has(re_binds, "y")
    /\ Get(re_binds, "y") = <<"class::x", "Constant(value=1)">>
    /\ Get(in_scope, "y") = "Constant(value=1)"
    /\ Has(in_scope, "x")
    /\ ~Has(re_binds, "x")

\* The name of the call the step has made.
Recorded == events'[Len(events')][1]

SameEntry(d, e, m) ==
    /\ Has(d, m) <=> Has(e, m)
    /\ Has(d, m) => Get(d, m) = Get(e, m)

KeysKeptInOrder(d, e, name) == e.keys = d.keys \/ e.keys = Append(d.keys, name)

\* C14: a call of add_name_to_scope for one name changes the entries of that
\* name only: for every other name, in_scope and re_binds keep the entry, or
\* its absence, and its place; no name ever leaves in_scope or re_binds.
C14_OnlyTheRecordedNameChanges ==
    [][Len(events') = Len(events) + 1 =>
          /\ \A m \in (TrackerNames \cup KeySet(in_scope) \cup KeySet(re_binds)
                       \cup KeySet(in_scope') \cup KeySet(re_binds'))
                      \ {Recorded} :
                SameEntry(in_scope, in_scope', m) /\ SameEntry(re_binds, re_binds', m)
          /\ KeySet(in_scope) \subseteq KeySet(in_scope')
          /\ KeySet(re_binds) \subseteq KeySet(re_binds')
          /\ KeysKeptInOrder(in_scope, in_scope', Recorded)
          /\ KeysKeptInOrder(re_binds, re_binds', Recorded)]_vars

C14_Witness ==
    /\ events = <<<<"x", "Constant(value=1)">>, <<"x", "class::x">>,
                  <<"y", "Constant(value=1)">>, <<"y", "class::x">>>>
    /\ re_binds.keys = <<"x", "y">>
    /\ Get(re_binds, "x") = <<"Constant(value=1)", "class::x">>
    /\ Get(re_binds, "y") = <<"Constant(value=1)", "class::x">>

(***************************************************************************)
(* Syntax trees (the ast module's nodes).  A node is a record with a kind  *)
(* and the fields of that kind the visitor reads.  Statement lists of a    *)
(* compound statement are body and orelse; ast.NodeVisitor.generic_visit   *)
(* visits them in that order.  Expression children hold no statement, so   *)
(* generic_visit finds nothing to dispatch on in them.                     *)
(***************************************************************************)
Constant(v) == [kind |-> "Constant", value |-> v]

Name(id) == [kind |-> "Name", id |-> id]

TupleOf(elts) == [kind |-> "Tuple", elts |-> elts]

Attribute(obj, attr) == [kind |-> "Attribute", value |-> obj, attr |-> attr]

Subscript(obj, idx) == [kind |-> "Subscript", value |-> obj, slice |-> idx]

alias(name, asname) == [name |-> name, asname |-> asname]

Import(names) == [kind |-> "Import", names |-> names]

ImportFrom(module, names, level) ==
    [kind |-> "ImportFrom", module |-> module, names |-> names, level |-> level]

Assign(targets, value) == [kind |-> "Assign", targets |-> targets, value |-> value]

ClassDef(name, stmts) == [kind |-> "ClassDef", name |-> name, body |-> stmts]

FunctionDef(name, stmts) == [kind |-> "FunctionDef", name |-> name, body |-> stmts]

AsyncFunctionDef(name, stmts) ==
    [kind |-> "AsyncFunctionDef", name |-> name, body |-> stmts]

Compound(kind, stmts, orelse) == [kind |-> kind, body |-> stmts, orelse |-> orelse]

Simple(kind) == [kind |-> kind]

Module(stmts) == [kind |-> "Module", body |-> stmts]

DispatchedKinds == {"Import", "ImportFrom", "Assign", "ClassDef", "FunctionDef"}

\* ast.dump of an expression.
dump(expr) ==
    CASE expr.kind = "Constant" -> "Constant(value=" \o expr.value \o ")"
      [] expr.kind = "Name" -> "Name(id='" \o expr.id \o "', ctx=Load())"

\* The statement children of a node, in the order of ast.iter_fields.
iter_child_stmts(node) ==
    CASE node.kind \in {"If", "For", "While", "Try", "With"} ->
            node.body \o node.orelse
      [] node.kind \in {"Module", "AsyncFunctionDef", "ClassDef", "FunctionDef"} ->
            node.body
      [] OTHER -> <<>>

(***************************************************************************)
(* GlobalRebindFinder: the walker.                                         *)
(***************************************************************************)
RECURSIVE import_loop(_, _)
import_loop(self, names) ==
    IF names = <<>> THEN self
    ELSE LET name == Head(names)
             defined_name == IF name.asname = None THEN name.name
                             ELSE name.asname[1]
             value == name.name
         IN  import_loop(record(self, defined_name, "(import) " \o value),
                         Tail(names))

visit_Import(self, node) == import_loop(self, node.names)

RECURSIVE import_from_loop(_, _, _)
import_from_loop(self, module, names) ==
    IF names = <<>> THEN self
    ELSE LET name == Head(names)
             defined_name == IF name.asname = None THEN name.name
                             ELSE name.asname[1]
             value == IF module = None THEN name.name
                      ELSE module[1] \o "." \o name.name
         IN  import_from_loop(
                 record(self, defined_name, "(import from) " \o value),
                 module, Tail(names))

\* Faulty variant of visit_ImportFrom: a missing module is joined as an empty one.
visit_ImportFrom_always_join(self, node) ==
    import_from_loop(self, IF node.module = None THEN <<"">> ELSE node.module,
                     node.names)

visit_ImportFrom(self, node) == import_from_loop(self, node.module, node.names)

RECURSIVE assign_loop(_, _, _)
assign_loop(self, targets, rhs) ==
    IF targets = <<>> THEN self
    ELSE LET target == Head(targets)
         IN  assign_loop(IF target.kind = "Name"
                         THEN record(self, target.id, dump(rhs))
                         ELSE self,
                         Tail(targets), rhs)

\* Faulty variant of visit_Assign: only a single simple-name target is handled.
visit_Assign_single_target(self, node) ==
    IF Len(node.targets) = 1 /\ node.targets[1].kind = "Name"
    THEN record(self, node.targets[1].id, dump(node.value))
    ELSE self

visit_Assign(self, node) == assign_loop(self, node.targets, node.value)

visit_ClassDef(self, node) == record(self, node.name, "class::" \o node.name)

visit_FunctionDef(self, node) == record(self, node.name, "function::" \o node.name)

RECURSIVE visit(_, _)
RECURSIVE visit_each(_, _)
\* Faulty variant of generic_visit: statements without a handler are skipped.
generic_visit_skip(self, node) == self

\* ast.NodeVisitor.generic_visit: visit every child node.
generic_visit(self, node) == visit_each(self, iter_child_stmts(node))

visit_each(self, nodes) ==
    IF nodes = <<>> THEN self
    ELSE visit_each(visit(self, Head(nodes)), Tail(nodes))

\* ast.NodeVisitor.visit: getattr(self, "visit_" + kind, self.generic_visit).
visit(self, node) ==
    CASE node.kind = "Import" -> visit_Import(self, node)
      [] node.kind = "ImportFrom" -> visit_ImportFrom(self, node)
      [] node.kind = "Assign" -> visit_Assign(self, node)
      [] node.kind = "ClassDef" -> visit_ClassDef(self, node)
      [] node.kind = "FunctionDef" -> visit_FunctionDef(self, node)
      [] OTHER -> generic_visit(self, node)

(***************************************************************************)
(* One file's traversal: global_rebind_finder.visit(source_ast) runs       *)
(* generic_visit on the Module, which visits the top-level statements in   *)
(* order.  One action per handler; the statement is any of a small set of  *)
(* statements, and body is the part of the file visited so far.            *)
(***************************************************************************)
Exprs == {Constant("1"), Constant("2")}

TargetLists ==
    {<<Name("x")>>,
     <<Name("y")>>,
     <<Name("x"), Name("y")>>,
     <<TupleOf(<<Name("x"), Name("y")>>)>>,
     <<Attribute(Name("x"), "f")>>,
     <<Subscript(Name("x"), Constant("0"))>>,
     <<Attribute(Name("x"), "f"), Name("y")>>}

ImportStmts ==
    {Import(<<alias("os", None)>>),
     Import(<<alias("sys", <<"os">>)>>),
     Import(<<alias("a.b", <<"n">>)>>)}

ImportFromStmts ==
    {ImportFrom(<<"a">>, <<alias("b", <<"n">>)>>, 0),
     ImportFrom(<<"a">>, <<alias("b", None), alias("c", <<"x">>)>>, 0),
     ImportFrom(None, <<alias("b", None)>>, 1),
     ImportFrom(<<"a">>, <<alias("b", None)>>, 2)}

AssignStmts == {Assign(targets, value) : targets \in TargetLists, value \in Exprs}

\* Statement lists nested in a definition or in a control-flow statement.
NestedBodies ==
    {<<>>,
     <<Assign(<<Name("x")>>, Constant("2"))>>,
     <<FunctionDef("x", <<Assign(<<Name("y")>>, Constant("1"))>>)>>}

OrElseBodies == {<<>>, <<Assign(<<Name("y")>>, Constant("2"))>>}

ClassDefStmts == {ClassDef(name, stmts) : name \in {"x", "K"}, stmts \in NestedBodies}

FunctionDefStmts ==
    {FunctionDef(name, stmts) : name \in {"x", "f"}, stmts \in NestedBodies}

ControlFlowKinds == {"If", "For", "While", "Try", "With"}

OtherStmts ==
    {Simple("Expr"), Simple("Pass")}
    \cup {AsyncFunctionDef("f", stmts) : stmts \in NestedBodies}
    \cup {Compound(kind, stmts, orelse) :
            kind \in ControlFlowKinds, stmts \in NestedBodies,
            orelse \in OrElseBodies}

VisitImport ==
    /\ pc = "visit"
    /\ Len(body) < MaxStmts
    /\ \E node \in ImportStmts :
          /\ SetSelf(visit(Self, node))
          /\ body' = Append(body, node)
    /\ UNCHANGED scanVars

VisitImportFrom ==
    /\ pc = "visit"
    /\ Len(body) < MaxStmts
    /\ \E node \in ImportFromStmts :
          /\ SetSelf(visit(Self, node))
          /\ body' = Append(body, node)
    /\ UNCHANGED scanVars

VisitAssign ==
    /\ pc = "visit"
    /\ Len(body) < MaxStmts
    /\ \E node \in AssignStmts :
          /\ SetSelf(visit(Self, node))
          /\ body' = Append(body, node)
    /\ UNCHANGED scanVars

VisitClassDef ==
    /\ pc = "visit"
    /\ Len(body) < MaxStmts
    /\ \E node \in ClassDefStmts :
          /\ SetSelf(visit(Self, node))
          /\ body' = Append(body, node)
    /\ UNCHANGED scanVars

VisitFunctionDef ==
    /\ pc = "visit"
    /\ Len(body) < MaxStmts
    /\ \E node \in FunctionDefStmts :
          /\ SetSelf(visit(Self, node))
          /\ body' = Append(body, node)
    /\ UNCHANGED scanVars

GenericVisit ==
    /\ pc = "visit"
    /\ Len(body) < MaxStmts
    /\ \E node \in OtherStmts :
          /\ SetSelf(visit(Self, node))
          /\ body' = Append(body, node)
    /\ UNCHANGED scanVars

NextWalk ==
    \/ VisitImport
    \/ VisitImportFrom
    \/ VisitAssign
    \/ VisitClassDef
    \/ VisitFunctionDef
    \/ GenericVisit

SpecWalk == InitTracker /\ [][NextWalk]_vars

\* The statement the step has just visited.
Visited(kinds) ==
    /\ Len(body') = Len(body) + 1
    /\ body'[Len(body')].kind \in kinds

LastStmt == body'[Len(body')]

TrackerUnchanged == in_scope' = in_scope /\ re_binds' = re_binds /\ events' = events

\* The step has visited an expression, pass or control-flow statement.
VisitedOther ==
    /\ Len(body') = Len(body) + 1
    /\ body'[Len(body')].kind \notin DispatchedKinds \cup {"AsyncFunctionDef"}

SelfAfter == [in_scope |-> in_scope', re_binds |-> re_binds', events |-> events']

\* The statements of the five dispatched kinds found in stmts, looking
\* through statements of every other kind, in document order.
RECURSIVE Hoisted(_)
Hoisted(stmts) ==
    IF stmts = <<>> THEN <<>>
    ELSE LET h == Head(stmts)
         IN  (IF h.kind \in DispatchedKinds THEN <<h>>
              ELSE Hoisted(iter_child_stmts(h)))
             \o Hoisted(Tail(stmts))

RECURSIVE StripDefBodies(_)
StripDefBodies(stmts) ==
    IF stmts = <<>> THEN <<>>
    ELSE LET h == Head(stmts)
             stripped ==
                 CASE h.kind \in {"ClassDef", "FunctionDef", "AsyncFunctionDef"} ->
                         [h EXCEPT !.body = <<>>]
                   [] h.kind \in ControlFlowKinds ->
                         [h EXCEPT !.body = StripDefBodies(h.body),
                                   !.orelse = StripDefBodies(h.orelse)]
                   [] OTHER -> h
         IN  <<stripped>> \o StripDefBodies(Tail(stmts))

\* C4: the walker never descends into the body of a class or function
\* definition: the binding events, and so re_binds, are those of the same
\* file with every class and function body emptied.
C4_DefBodiesNeverBind ==
    LET outer == visit_each(NewFinder, StripDefBodies(body))
    IN  /\ events = outer.events
        /\ re_binds = outer.re_binds

\* The binding events of the simple-name targets of an assignment.
NameTargets(node) == SelectSeq(node.targets, LAMBDA t : t.kind = "Name")

NameTargetEvents(node) ==
    [i \in 1..Len(NameTargets(node)) |->
        <<NameTargets(node)[i].id, dump(node.value)>>]

\* C5 (as stated): an assignment produces a binding event only when it has a
\* single simple-name target; with several targets, or a tuple, attribute or
\* subscript target, it produces none and leaves the tracker unchanged.
C5_OnlySingleNameTargetBinds ==
    [][Visited({"Assign"}) =>
          IF Len(LastStmt.targets) = 1 /\ LastStmt.targets[1].kind = "Name"
          THEN events' = Append(events,
                   <<LastStmt.targets[1].id, dump(LastStmt.value)>>)
          ELSE TrackerUnchanged]_vars

\* C5 (amended): an assignment produces one binding event for each of its
\* targets that is a simple name, in target order, the descriptor being the
\* serialization of the right-hand side; tuple, attribute and subscript
\* targets produce none, and an assignment without a simple-name target
\* leaves the tracker unchanged.
C5_EveryNameTargetBinds ==
    [][Visited({"Assign"}) =>
          /\ events' = events \o NameTargetEvents(LastStmt)
          /\ \A i \in 1..Len(NameTargets(LastStmt)) :
                /\ Has(in_scope', NameTargets(LastStmt)[i].id)
                /\ Get(in_scope', NameTargets(LastStmt)[i].id) = dump(LastStmt.value)
          /\ NameTargets(LastStmt) = <<>> => TrackerUnchanged]_vars

C5_Witness ==
    /\ body = <<Assign(<<Name("x"), Name("y")>>, Constant("1")),
                Assign(<<Attribute(Name("x"), "f"), Name("y")>>, Constant("2"))>>
    /\ events = <<<<"x", "Constant(value=1)">>, <<"y", "Constant(value=1)">>,
                  <<"y", "Constant(value=2)">>>>
    /\ Get(re_binds, "y") = <<"Constant(value=1)", "Constant(value=2)">>
    /\ ~Has(re_binds, "x")

BoundName(a) == IF a.asname = None THEN a.name ELSE a.asname[1]

\* C6 (as stated): each imported entity of an import-from produces one
\* binding event, named by the alias if given, else by the imported name, with
\* descriptor "(import from) " + <module>.<name>, the module being empty for
\* a relative import without one.
C6_ImportFromJoinsModuleAndName ==
    [][Visited({"ImportFrom"}) =>
          LET written == IF LastStmt.module = None THEN "" ELSE LastStmt.module[1]
          IN  events' = events \o
                  [i \in 1..Len(LastStmt.names) |->
                      <<BoundName(LastStmt.names[i]),
                        "(import from) " \o written \o "." \o LastStmt.names[i].name>>]
       ]_vars

\* C6 (amended): as stated, except that when the statement names no module
\* (from . import b) the descriptor is "(import from) " + <name> with no
\* dot; the relative level is never part of the descriptor.  import a.b as n
\* then from a import b as n gives re_binds["n"] =
\* ["(import) a.b", "(import from) a.b"].
C6_ImportFromDescriptor ==
    [][Visited({"ImportFrom"}) =>
          /\ events' = events \o
                [i \in 1..Len(LastStmt.names) |->
                    <<BoundName(LastStmt.names[i]),
                      "(import from) " \o
                        (IF LastStmt.module = None THEN LastStmt.names[i].name
                         ELSE LastStmt.module[1] \o "." \o LastStmt.names[i].name)>>]
          /\ body' = <<Import(<<alias("a.b", <<"n">>)>>),
                       ImportFrom(<<"a">>, <<alias("b", <<"n">>)>>, 0)>>
                => /\ Has(re_binds', "n")
                   /\ Get(re_binds', "n") = <<"(import) a.b", "(import from) a.b">>
       ]_vars

C6_Witness ==
    /\ body = <<ImportFrom(None, <<alias("b", None)>>, 1),
                ImportFrom(<<"a">>, <<alias("b", <<"n">>)>>, 0)>>
    /\ events = <<<<"b", "(import from) b">>, <<"n", "(import from) a.b">>>>

(***************************************************************************)
(* Relative paths are sequences of characters, so that glob's pattern and  *)
(* the substring tests of the filter are computed on the text.             *)
(***************************************************************************)
RECURSIVE Str(_)
Str(cs) == IF cs = <<>> THEN "" ELSE Head(cs) \o Str(Tail(cs))

\* Python's "sub in text".
Contains(text, sub) ==
    \E i \in 1..(Len(text) - Len(sub) + 1) :
        SubSeq(text, i, i + Len(sub) - 1) = sub

EndsWith(text, suffix) ==
    /\ Len(text) >= Len(suffix)
    /\ SubSeq(text, Len(text) - Len(suffix) + 1, Len(text)) = suffix

\* Some component of the path starts with a dot.
Hidden(path) ==
    \E i \in 1..Len(path) : path[i] = "." /\ (i = 1 \/ path[i - 1] = "/")

Paths ==
    {<<"a", ".", "p", "y">>,
     <<"b", ".", "p", "y", "i">>,
     <<"p", "k", "g", "/", "t", "e", "s", "t", "s", "/", "u", "t", "i", "l", ".", "p", "y">>,
     <<"a", "t", "t", "e", "s", "t", "a", "t", "i", "o", "n", "/", "m", ".", "p", "y", "i">>,
     <<"s", "e", "t", "u", "p", ".", "p", "y">>,
     <<"c", ".", "t", "x", "t">>,
     <<".", "h", "/", "d", ".", "p", "y">>,
     <<"l", "i", "b", "/", "e", ".", "p", "y">>}

DotPy == <<".", "p", "y">>
DotPyi == <<".", "p", "y", "i">>
SetupPy == <<"s", "e", "t", "u", "p", ".", "p", "y">>
Test == <<"t", "e", "s", "t">>

\* What open() and ast.parse find in a file.
Contents ==
    {[status |-> "ok", tree |-> Module(<<Assign(<<Name("x")>>, Constant("1"))>>)],
     [status |-> "ok",
      tree |-> Module(<<Assign(<<Name("x")>>, Constant("1")),
                        Assign(<<Name("x")>>, Constant("2"))>>)],
     [status |-> "syntax_error"],
     [status |-> "unreadable"]}

RECURSIVE Listings(_)
Listings(n) ==
    IF n = 0 THEN {<<>>}
    ELSE LET shorter == Listings(n - 1)
         IN  shorter \cup
             {Append(l, [path |-> path, content |-> content]) :
                 l \in {t \in shorter : Len(t) = n - 1},
                 path \in Paths, content \in Contents}

DistinctPaths(l) == \A i, j \in 1..Len(l) : l[i].path = l[j].path => i = j

FileSystems == {l \in Listings(MaxFiles) : DistinctPaths(l)}

directory == "repo"

ContentOf(path) == (CHOOSE i \in 1..Len(fs) : fs[i].path = path)

\* Faulty variant of glob: the root's state is not looked at.
glob_any_root(ext) ==
    LET listed == [i \in 1..Len(fs) |-> fs[i].path]
    IN  SelectSeq(listed, LAMBDA path : EndsWith(path, ext) /\ ~Hidden(path))

\* glob.glob("**/*" + ext, root_dir=directory, recursive=True): the entries
\* under the root whose name ends with ext, hidden entries and entries under
\* hidden directories left out, in listing order; nothing when the root cannot
\* be listed (glob swallows the OSError).
glob(ext) ==
    IF root # "ok" THEN <<>>
    ELSE LET listed == [i \in 1..Len(fs) |-> fs[i].path]
         IN  SelectSeq(listed, LAMBDA path : EndsWith(path, ext) /\ ~Hidden(path))

\* Faulty variant of Excluded: a match on whole path components.
Excluded_by_component(relative_path) ==
    \/ relative_path = SetupPy
    \/ \E i \in 1..(Len(relative_path) - 4) :
          /\ i = 1 \/ relative_path[i - 1] = "/"
          /\ SubSeq(relative_path, i, i + 3) = Test
          /\ relative_path[i + 4] \in {"/", "s", "."}

Excluded(relative_path) ==
    Contains(relative_path, SetupPy) \/ Contains(relative_path, Test)

Reverse(seq) == [i \in 1..Len(seq) |-> seq[Len(seq) + 1 - i]]

\* Faulty variant of Candidates: the candidates are iterated in an order
\* that changes from one process to the next.
Candidates_per_process_order ==
    LET listed == SelectSeq(glob(DotPy) \o glob(DotPyi),
                            LAMBDA path : ~Excluded(path))
    IN  IF run = 2 THEN Reverse(listed) ELSE listed

\* The list comprehension of re_binds_in_directory.
Candidates ==
    SelectSeq(glob(DotPy) \o glob(DotPyi), LAMBDA path : ~Excluded(path))

\* re_binds_in_source: open, read and parse the file, run a fresh finder.
Raises(content) == content.status # "ok"

\* Faulty variant of re_binds_in_source: one finder serves every file.
re_binds_in_source_shared_finder(content) == visit(Self, content.tree)

re_binds_in_source(content) == visit(NewFinder, content.tree)

(***************************************************************************)
(* main: the reporter.                                                     *)
(***************************************************************************)
RECURSIVE print_values(_)
print_values(values) ==
    IF values = <<>> THEN <<>>
    ELSE <<"    " \o Head(values)>> \o print_values(Tail(values))

RECURSIVE print_names(_, _)
print_names(source_re_binds, names) ==
    IF names = <<>> THEN <<>>
    ELSE <<"  " \o Head(names)>>
         \o print_values(Get(source_re_binds, Head(names)))
         \o print_names(source_re_binds, Tail(names))

RECURSIVE print_sources(_, _)
print_sources(d, source_paths) ==
    IF source_paths = <<>> THEN <<>>
    ELSE LET source_path == Head(source_paths)
             source_re_binds == Get(d, source_path)
         IN  (IF DictLen(source_re_binds) > 0
              THEN <<"---\n" \o source_path>>
                   \o print_names(source_re_binds, source_re_binds.keys)
              ELSE <<>>)
             \o print_sources(d, Tail(source_paths))

NoReBindsMessage == "(No global re-binds found in " \o directory \o ")"

main_output(d) ==
    (IF DictLen(d) = 0 THEN <<NoReBindsMessage>> ELSE <<>>)
    \o print_sources(d, d.keys)

(***************************************************************************)
(* One run of main(directory).                                             *)
(***************************************************************************)
InitScan ==
    /\ in_scope = NewFinder.in_scope
    /\ re_binds = NewFinder.re_binds
    /\ events = <<>>
    /\ body = <<>>
    /\ root \in {"ok", "missing", "unreadable"}
    /\ fs \in FileSystems
    /\ root = "missing" => fs = <<>>
    /\ pc = "start"
    /\ python_modules_and_stubs = <<>>
    /\ next_source = 1
    /\ opened = <<>>
    /\ directory_re_binds = EmptyDict
    /\ output = <<>>
    /\ run = 1
    /\ first_run = NoRun

\* re_binds_in_directory, lines 80-94: enumerate and filter.
Enumerate ==
    /\ pc = "start"
    /\ python_modules_and_stubs' = Candidates
    /\ pc' = "scan"
    /\ UNCHANGED <<in_scope, re_binds, events, body, root, fs, next_source,
                   opened, directory_re_binds, output, run, first_run>>

\* One iteration of the dict comprehension, the file parses.
AnalyzeSource ==
    /\ pc = "scan"
    /\ next_source <= Len(python_modules_and_stubs)
    /\ LET source_path == python_modules_and_stubs[next_source]
           content == fs[ContentOf(source_path)].content
       IN  /\ ~Raises(content)
           /\ opened' = Append(opened, source_path)
           /\ SetSelf(re_binds_in_source(content))
           /\ body' = content.tree.body
           /\ directory_re_binds' =
                 Put(directory_re_binds,
                     directory \o "/" \o Str(source_path),
                     re_binds_in_source(content).re_binds)
    /\ next_source' = next_source + 1
    /\ UNCHANGED <<root, fs, pc, python_modules_and_stubs, output, run,
                   first_run>>

\* Faulty variant of SourceRaises: the failing file is skipped and the scan goes on.
SourceRaises_skip ==
    /\ pc = "scan"
    /\ next_source <= Len(python_modules_and_stubs)
    /\ LET source_path == python_modules_and_stubs[next_source]
           content == fs[ContentOf(source_path)].content
       IN  /\ Raises(content)
           /\ opened' = Append(opened, source_path)
    /\ next_source' = next_source + 1
    /\ UNCHANGED <<in_scope, re_binds, events, body, root, fs, pc,
                   python_modules_and_stubs, directory_re_binds, output, run,
                   first_run>>

\* One iteration of the dict comprehension, open or ast.parse raises: the
\* exception leaves re_binds_in_directory and main, uncaught.
SourceRaises ==
    /\ pc = "scan"
    /\ next_source <= Len(python_modules_and_stubs)
    /\ LET source_path == python_modules_and_stubs[next_source]
           content == fs[ContentOf(source_path)].content
       IN  /\ Raises(content)
           /\ opened' = Append(opened, source_path)
    /\ pc' = "raised"
    /\ UNCHANGED <<in_scope, re_binds, events, body, root, fs,
                   python_modules_and_stubs, next_source, directory_re_binds,
                   output, run, first_run>>

\* main, lines 103-111: the comprehension is over, print the report.
Report ==
    /\ pc = "scan"
    /\ next_source > Len(python_modules_and_stubs)
    /\ output' = main_output(directory_re_binds)
    /\ pc' = "done"
    /\ UNCHANGED <<in_scope, re_binds, events, body, root, fs,
                   python_modules_and_stubs, next_source, opened,
                   directory_re_binds, run, first_run>>

NextScan ==
    \/ Enumerate
    \/ AnalyzeSource
    \/ SourceRaises
    \/ Report

SpecScan == InitScan /\ [][NextScan]_vars

NoFileHasReBinds ==
    \A k \in KeySet(directory_re_binds) : DictLen(Get(directory_re_binds, k)) = 0

\* C7: the reporter prints the single message "(No global re-binds found in
\* <directory>)" whenever no scanned file has a non-empty re_binds, also when
\* files were scanned and all are empty; otherwise it prints only the files
\* with a non-empty re_binds.
C7_MessageWhenNothingReBound ==
    pc = "done" =>
        IF NoFileHasReBinds
        THEN output = <<NoReBindsMessage>>
        ELSE output = print_sources(directory_re_binds, directory_re_binds.keys)

\* C8 (as stated): with a missing or unreadable root directory the run ends
\* in a fatal error before any file is analyzed, and prints no report, not
\* even the "No global re-binds found" message.
C8_BadRootIsFatal ==
    root # "ok" => pc # "done" /\ output = <<>> /\ opened = <<>>

\* C8 (amended): with a missing or unreadable root directory the enumeration
\* yields no candidate and raises nothing: no file is analyzed and the run
\* completes normally, printing the single message "(No global re-binds
\* found in <directory>)".
C8_BadRootScansNothing ==
    root # "ok" =>
        /\ python_modules_and_stubs = <<>>
        /\ opened = <<>>
        /\ DictLen(directory_re_binds) = 0
        /\ pc # "raised"
        /\ pc = "done" => output = <<NoReBindsMessage>>
        /\ pc # "done" => output = <<>>

C8_Witness ==
    /\ root = "unreadable"
    /\ Len(fs) = MaxFiles
    /\ \A i \in 1..Len(fs) :
          ~Excluded(fs[i].path) /\ EndsWith(fs[i].path, DotPy) /\ ~Hidden(fs[i].path)
    /\ pc = "done"
    /\ output = <<NoReBindsMessage>>

\* C9: a read or parse failure on one candidate file is fatal to the whole
\* run: the run stops at that file, no later file is analyzed, and nothing is
\* printed, not even for the files scanned before it; output is produced only
\* if every candidate file was read and parsed.
C9_FailureIsFatal ==
    /\ [](pc = "raised" =>
            /\ output = <<>>
            /\ Len(opened) = next_source
            /\ opened = SubSeq(python_modules_and_stubs, 1, next_source)
            /\ Raises(fs[ContentOf(opened[Len(opened)])].content))
    /\ [](pc = "done" =>
            \A i \in 1..Len(python_modules_and_stubs) :
                ~Raises(fs[ContentOf(python_modules_and_stubs[i])].content))
    /\ [](output # <<>> => pc = "done")
    /\ [][pc = "raised" => UNCHANGED <<pc, output, opened, directory_re_binds>>]_vars
    /\ [][\A i \in 1..Len(python_modules_and_stubs) :
              (i >= next_source
               /\ Raises(fs[ContentOf(python_modules_and_stubs[i])].content))
              => pc' # "done"]_vars

C9_Witness ==
    /\ pc = "raised"
    /\ Len(opened) = 2
    /\ DictLen(directory_re_binds) = 1
    /\ ~NoFileHasReBinds
    /\ output = <<>>

HasSourceExtension(path) == EndsWith(path, DotPy) \/ EndsWith(path, DotPyi)

Key(path) == directory \o "/" \o Str(path)

\* C10 (as stated): the scanner's result has exactly one entry for every
\* file under the root with extension .py or .pyi whose relative path
\* contains neither "test" nor "setup.py", and no other entry; files with an
\* empty re_binds have an entry too.
C10_EntryForEverySourceFile ==
    root = "ok" /\ pc = "done" =>
        /\ KeySet(directory_re_binds) =
              {Key(fs[i].path) : i \in
                  {j \in 1..Len(fs) :
                      /\ HasSourceExtension(fs[j].path)
                      /\ ~Contains(fs[j].path, Test)
                      /\ ~Contains(fs[j].path, SetupPy)}}
        /\ DictLen(directory_re_binds) = Cardinality(KeySet(directory_re_binds))

\* C10 (amended): when the scan completes, the result has exactly one entry
\* for every file under a listable root that is not hidden (no component of
\* its relative path starts with a dot), has extension .py or .pyi and whose
\* relative path contains neither "test" nor "setup.py", and no other entry;
\* each entry is that file's re_binds, empty ones included.  Hidden files
\* and files under hidden directories are never candidates.
C10_EntryForEveryListedSourceFile ==
    pc = "done" =>
        LET expected ==
                {j \in 1..Len(fs) :
                    /\ root = "ok"
                    /\ ~Hidden(fs[j].path)
                    /\ HasSourceExtension(fs[j].path)
                    /\ ~Contains(fs[j].path, Test)
                    /\ ~Contains(fs[j].path, SetupPy)}
        IN  /\ KeySet(directory_re_binds) = {Key(fs[j].path) : j \in expected}
            /\ DictLen(directory_re_binds) = Cardinality(expected)
            /\ \A j \in expected :
                  Get(directory_re_binds, Key(fs[j].path)) =
                      visit(NewFinder, fs[j].content.tree).re_binds

C10_Witness ==
    /\ root = "ok"
    /\ pc = "done"
    /\ \E i \in 1..Len(fs) : Hidden(fs[i].path) /\ HasSourceExtension(fs[i].path)
    /\ DictLen(directory_re_binds) = 1
    /\ NoFileHasReBinds

\* C11: in_scope and re_binds are never shared across files: the finder of
\* each file starts empty, so the re_binds reported for a file is that of
\* its own statements alone, whatever was scanned before it; a name bound
\* once in each of two files is a re-bind in neither.
C11_EachFileStartsFresh ==
    /\ Self = visit(NewFinder, Module(body))
    /\ DictLen(directory_re_binds) <= Len(python_modules_and_stubs)
    /\ \A i \in 1..DictLen(directory_re_binds) :
          LET source_path == python_modules_and_stubs[i]
              own == visit(NewFinder, fs[ContentOf(source_path)].content.tree)
              reported == Get(directory_re_binds, directory_re_binds.keys[i])
          IN  /\ directory_re_binds.keys[i] = Key(source_path)
              /\ reported = own.re_binds
              /\ \A name \in KeySet(reported) :
                    Len(ValuesFor(own.events, name)) >= 2

C11_Witness ==
    /\ pc = "done"
    /\ Len(fs) = 2
    /\ \A i \in 1..Len(fs) :
          fs[i].content =
              [status |-> "ok",
               tree |-> Module(<<Assign(<<Name("x")>>, Constant("1"))>>)]
    /\ DictLen(directory_re_binds) = 2
    /\ NoFileHasReBinds
    /\ events = <<<<"x", "Constant(value=1)">>>>

(***************************************************************************)
(* Two runs of main(directory), one after the other, over the same         *)
(* directory: the second process starts from nothing but the directory,    *)
(* which lists its entries as it did for the first.                        *)
(***************************************************************************)
RunAgain ==
    /\ run = 1
    /\ pc \in {"done", "raised"}
    /\ first_run' = [pc |-> pc, output |-> output,
                     directory_re_binds |-> directory_re_binds]
    /\ run' = 2
    /\ pc' = "start"
    /\ SetSelf(NewFinder)
    /\ body' = <<>>
    /\ python_modules_and_stubs' = <<>>
    /\ next_source' = 1
    /\ opened' = <<>>
    /\ directory_re_binds' = EmptyDict
    /\ output' = <<>>
    /\ UNCHANGED <<root, fs>>

NextTwice ==
    \/ Enumerate
    \/ AnalyzeSource
    \/ SourceRaises
    \/ Report
    \/ RunAgain

SpecTwice == InitScan /\ [][NextTwice]_vars

====
